---------------------------- MODULE Spec2Model ----------------------------
(***************************************************************************)
(* Model of the RSP data pipeline of src/src/data.ts: the CSV line         *)
(* tokenizer (parseCSVLine), the row normalizer (parseCSVData), the        *)
(* aggregator (getMonthlyAverages), the fallback generator                 *)
(* (generateSampleData), the loader (loadRealData) and the application     *)
(* that drives them (RSPVisualizationApp, with RSPChart of chart.ts).      *)
(*                                                                         *)
(* Strings are sequences of one-character strings.  Numbers are fixed      *)
(* point integers counting 1/10000ths (Scale), wrapped in a record that    *)
(* also represents NaN and the infinities: [k |-> "fin", v |-> n],         *)
(* [k |-> "nan", v |-> 0], [k |-> "inf", v |-> 1 or -1].  The price and    *)
(* random inputs are dyadic or short decimals for which the IEEE-754       *)
(* arithmetic of the code agrees with the exact arithmetic used here.      *)
(***************************************************************************)
EXTENDS Integers, Sequences, FiniteSets, TLC

VARIABLES
  line,        \* parseCSVLine: the argument
  fields,      \* parseCSVLine: the returned array
  tokPc,       \* "idle" | "ready" | "done"
  source,      \* the description of the CSV text (header, rows, trailing)
  csvText,     \* parseCSVData: the argument
  tz,          \* the time zone of the host
  parsed,      \* parseCSVData: what it returned or threw
  parsePc,     \* "idle" | "ready" | "done"
  aggData,     \* getMonthlyAverages: the data argument
  query,       \* getMonthlyAverages: city, fuelType and year
  averages,    \* getMonthlyAverages: what it returned
  aggPc,       \* "idle" | "ready" | "done"
  aggLog,      \* getMonthlyAverages: the calls made, each with the dataset
               \* before and after it and the series it returned
  net,         \* loadRealData: what fetch and response.text() have given
  rng,         \* the random stream Math.random draws from
  loadResult,  \* loadRealData: the promise it returned
  loadPc,      \* "idle" | "fetching" | "readingText" | "settled"
  genLog,      \* generateSampleData: the random stream of each invocation
  sample,      \* generateSampleData: what the latest invocation returned
  firstSample, \* generateSampleData: what the first invocation returned
  appPc,       \* the page: "idle" | "start" | "running" | "failed"
  isInitialized,  \* RSPVisualizationApp.isInitialized
  chart,       \* RSPVisualizationApp.chart: "null", or what the RSPChart
               \* shows: "blank" | "empty" | "bars" | "error"
  appData,     \* RSPVisualizationApp.data
  dataWrites,  \* how many times RSPVisualizationApp.data has been assigned
  loadDataPc,  \* loadData: "idle" | "awaiting" | "done"
  citySelect,  \* citySelect.value
  fuelSelect,  \* fuelSelect.value
  yearSelect,  \* yearSelect.value
  statsDisplay,    \* statsContainer.style.display: "css" while unset
  loadingDisplay,  \* loadingElement.style.display: "css" while unset
  lastUpdate   \* the latest run of updateChart: what it did, whether the
               \* data had been assigned, the series it got

tokVars == <<line, fields, tokPc>>
parseVars == <<source, csvText, tz, parsed, parsePc>>
aggVars == <<aggData, query, averages, aggPc, aggLog>>
loadVars == <<net, rng, loadResult, loadPc>>
genVars == <<genLog, sample, firstSample>>
appVars ==
  <<appPc, isInitialized, chart, appData, dataWrites, loadDataPc, citySelect,
    fuelSelect, yearSelect, statsDisplay, loadingDisplay, lastUpdate>>
vars ==
  <<line, fields, tokPc, source, csvText, tz, parsed, parsePc,
    aggData, query, averages, aggPc, aggLog, net, rng, loadResult, loadPc,
    genLog, sample, firstSample, appPc, isInitialized, chart, appData,
    dataWrites, loadDataPc, citySelect, fuelSelect, yearSelect, statsDisplay,
    loadingDisplay, lastUpdate>>

(***************************************************************************)
(* Strings                                                                 *)
(***************************************************************************)

\* The characters String.prototype.trim removes, among those of the model.
WhiteSpace == {" ", "\t", "\r", "\n"}

RECURSIVE TrimStart(_)
TrimStart(s) ==
  IF s # <<>> /\ Head(s) \in WhiteSpace THEN TrimStart(Tail(s)) ELSE s

RECURSIVE TrimEnd(_)
TrimEnd(s) ==
  IF s # <<>> /\ s[Len(s)] \in WhiteSpace
    THEN TrimEnd(SubSeq(s, 1, Len(s) - 1))
    ELSE s

\* String.prototype.trim
Trim(s) == TrimEnd(TrimStart(s))

\* String.prototype.split(sep) for a one-character separator.
RECURSIVE SplitOn(_, _)
SplitOn(s, sep) ==
  IF \A i \in 1..Len(s) : s[i] # sep THEN <<s>>
  ELSE LET k == CHOOSE i \in 1..Len(s) :
                  s[i] = sep /\ \A j \in 1..(i - 1) : s[j] # sep
       IN  <<SubSeq(s, 1, k - 1)>> \o SplitOn(SubSeq(s, k + 1, Len(s)), sep)

\* All sequences over S of length at most n.
RECURSIVE SeqsUpTo(_, _)
SeqsUpTo(S, n) ==
  IF n = 0 THEN {<<>>}
  ELSE LET shorter == SeqsUpTo(S, n - 1)
       IN  shorter \cup {Append(s, c) : s \in shorter, c \in S}

(***************************************************************************)
(* Line tokenizer: parseCSVLine, data.ts 167-192                           *)
(***************************************************************************)

\* The loop body of parseCSVLine from index i on, then the final push.
RECURSIVE ScanLine(_, _, _, _, _)
ScanLine(ln, i, current, inQuotes, result) ==
  IF i > Len(ln) THEN Append(result, Trim(current))
  ELSE LET char == ln[i]
       IN  IF char = "\""
             THEN ScanLine(ln, i + 1, current, ~inQuotes, result)
           ELSE IF char = "," /\ ~inQuotes
             THEN ScanLine(ln, i + 1, <<>>, inQuotes,
                           Append(result, Trim(current)))
           ELSE ScanLine(ln, i + 1, Append(current, char), inQuotes, result)

\* Mutant: a quote is kept as field content and never toggles the flag.
RECURSIVE ScanLineQuoteBlind(_, _, _, _, _)
ScanLineQuoteBlind(ln, i, current, inQuotes, result) ==
  IF i > Len(ln) THEN Append(result, Trim(current))
  ELSE LET char == ln[i]
       IN  IF char = "," /\ ~inQuotes
             THEN ScanLineQuoteBlind(ln, i + 1, <<>>, inQuotes,
                                     Append(result, Trim(current)))
           ELSE ScanLineQuoteBlind(ln, i + 1, Append(current, char),
                                   inQuotes, result)

parseCSVLineQuoteBlind(ln) == ScanLineQuoteBlind(ln, 1, <<>>, FALSE, <<>>)

\* Mutant: the final buffer is pushed only when it is not empty.
parseCSVLineDropsLast(ln) ==
  LET r == ScanLine(ln, 1, <<>>, FALSE, <<>>)
  IN  IF r[Len(r)] = <<>> THEN SubSeq(r, 1, Len(r) - 1) ELSE r

parseCSVLine(ln) == ScanLine(ln, 1, <<>>, FALSE, <<>>)

(***************************************************************************)
(* Tokenizer inputs                                                        *)
(***************************************************************************)

MaxLineLen == 4

TokChars == {"a", "b", ",", "\"", " "}

\* a,"b,c",d
QuotedExample == <<"a", ",", "\"", "b", ",", "c", "\"", ",", "d">>

TokLines == SeqsUpTo(TokChars, MaxLineLen) \cup {QuotedExample}

TokIdle == line = <<>> /\ fields = <<>> /\ tokPc = "idle"

TokInit == line \in TokLines /\ fields = <<>> /\ tokPc = "ready"

\* One call of parseCSVLine(line).
Tokenize ==
  /\ tokPc = "ready"
  /\ fields' = parseCSVLine(line)
  /\ tokPc' = "done"
  /\ UNCHANGED line
  /\ UNCHANGED <<parseVars, aggVars, loadVars, genVars, appVars>>


(***************************************************************************)
(* Numbers                                                                 *)
(***************************************************************************)

\* One unit: numbers are counted in 1/Scale.
Scale == 100 * 100

Fin(n) == [k |-> "fin", v |-> n]
NaN == [k |-> "nan", v |-> 0]
Inf(sign) == [k |-> "inf", v |-> sign]

\* isNaN(x)
IsNaN(x) == x.k = "nan"

\* x < 0
IsNegative(x) == x.k # "nan" /\ x.v < 0

\* Math.round(x * 100) / 100: to the nearest 1/100, a tie towards +Infinity;
\* NaN and the infinities are returned as they are.
Round2(x) ==
  IF x.k = "fin" THEN Fin(((x.v + 50) \div 100) * 100) ELSE x

DigitChars == <<"0", "1", "2", "3", "4", "5", "6", "7", "8", "9">>

IsDigit(c) == \E i \in 1..10 : DigitChars[i] = c

DigitVal(c) == (CHOOSE i \in 1..10 : DigitChars[i] = c) - 1

\* The longest prefix of s made of decimal digits.
RECURSIVE DigitPrefix(_)
DigitPrefix(s) ==
  IF s # <<>> /\ IsDigit(Head(s)) THEN <<Head(s)>> \o DigitPrefix(Tail(s))
  ELSE <<>>

\* The value of a sequence of decimal digits.
RECURSIVE IntVal(_)
IntVal(s) ==
  IF s = <<>> THEN 0
  ELSE IntVal(SubSeq(s, 1, Len(s) - 1)) * 10 + DigitVal(s[Len(s)])

\* The value, in 1/Scale, of the digits after a decimal point (the inputs of
\* the model have at most four).
FracVal(s) == IntVal(SubSeq(s \o <<"0", "0", "0", "0">>, 1, 4))

StartsWith(s, prefix) ==
  Len(s) >= Len(prefix) /\ SubSeq(s, 1, Len(prefix)) = prefix

\* parseFloat: leading whitespace, a sign, then Infinity or the longest
\* decimal literal; NaN when there is none.  (No input of the model has an
\* exponent part.)
parseFloat(str) ==
  LET t == TrimStart(str)
      signed == t # <<>> /\ Head(t) \in {"+", "-"}
      sign == IF t # <<>> /\ Head(t) = "-" THEN -1 ELSE 1
      u == IF signed THEN Tail(t) ELSE t
      ip == DigitPrefix(u)
      rest == SubSeq(u, Len(ip) + 1, Len(u))
      fp == IF rest # <<>> /\ Head(rest) = "." THEN DigitPrefix(Tail(rest))
            ELSE <<>>
  IN  IF StartsWith(u, <<"I", "n", "f", "i", "n", "i", "t", "y">>) THEN Inf(sign)
      ELSE IF ip = <<>> /\ fp = <<>> THEN NaN
      ELSE Fin(sign * (IntVal(ip) * Scale + FracVal(fp)))

(***************************************************************************)
(* Dates: new Date(dateStr), getFullYear, getMonth                         *)
(***************************************************************************)

\* The time zones of the host, as far as a date-only string can tell them
\* apart: local time behind UTC, or not.
TimeZones == {"west", "utcOrEast"}

InvalidDate == [valid |-> FALSE, y |-> 0, m |-> 0, d |-> 0]

\* new Date(s) for the ISO date-only form YYYY-MM-DD, which is midnight UTC
\* of that day; every other input of the model is a string no engine
\* recognizes (Invalid Date).  The inputs keep the day within 01..28, where
\* all engines agree.
NewDate(s) ==
  IF /\ Len(s) = 10
     /\ s[5] = "-" /\ s[8] = "-"
     /\ \A i \in {1, 2, 3, 4, 6, 7, 9, 10} : IsDigit(s[i])
  THEN LET y == IntVal(SubSeq(s, 1, 4))
           m == IntVal(SubSeq(s, 6, 7))
           d == IntVal(SubSeq(s, 9, 10))
       IN  IF m \in 1..12 /\ d \in 1..31
             THEN [valid |-> TRUE, y |-> y, m |-> m, d |-> d]
             ELSE InvalidDate
  ELSE InvalidDate

\* Midnight UTC of the first of a month is the last day of the month before
\* in a zone behind UTC.
LocalIsPreviousMonth(date, zone) == zone = "west" /\ date.d = 1

\* Date.prototype.getFullYear: the year in local time.
getFullYear(date, zone) ==
  IF LocalIsPreviousMonth(date, zone) /\ date.m = 1 THEN date.y - 1
  ELSE date.y

\* Date.prototype.getMonth: the month in local time, 0-based.
getMonth(date, zone) ==
  IF LocalIsPreviousMonth(date, zone)
    THEN (IF date.m = 1 THEN 11 ELSE date.m - 2)
    ELSE date.m - 1

(***************************************************************************)
(* Row normalizer: parseCSVData, data.ts 75-164                            *)
(***************************************************************************)

UpperChars == <<"A", "B", "C", "D", "E", "F", "G", "H", "I", "J", "K", "L", "M", "N", "O", "P", "Q", "R", "S", "T", "U", "V", "W", "X", "Y", "Z">>
LowerChars == <<"a", "b", "c", "d", "e", "f", "g", "h", "i", "j", "k", "l", "m", "n", "o", "p", "q", "r", "s", "t", "u", "v", "w", "x", "y", "z">>

\* String.prototype.toLowerCase
toLowerCase(s) ==
  [i \in 1..Len(s) |->
     IF \E j \in 1..26 : UpperChars[j] = s[i]
       THEN LowerChars[CHOOSE j \in 1..26 : UpperChars[j] = s[i]]
       ELSE s[i]]

petrol == <<"p", "e", "t", "r", "o", "l">>
diesel == <<"d", "i", "e", "s", "e", "l">>

ErrTooFewLines ==
  "CSV parsing failed: CSV file must have at least a header and one data row"
ErrNoValidRows ==
  "CSV parsing failed: No valid data rows found in CSV file"

\* Mutant: the placeholders NA and N/A go through parseFloat like any text.
RspOfNoPlaceholder(rspValue) == parseFloat(rspValue)

\* data.ts 132: blank, NA and N/A are 0, anything else is parseFloat'ed.
RspOf(rspValue) ==
  IF rspValue = <<>> \/ rspValue = <<"N", "A">> \/ rspValue = <<"N", "/", "A">>
    THEN Fin(0)
    ELSE parseFloat(rspValue)

\* Mutant: any product is let through.
IsFuelAny(product) == TRUE

\* data.ts 110: the product is petrol or diesel.
IsFuel(product) == product = petrol \/ product = diesel

\* data.ts 133: isNaN(rsp) || rsp < 0
RspRejected(rsp) == IsNaN(rsp) \/ IsNegative(rsp)

\* One pass of the loop body, data.ts 88-145, on lines[i]: "blank" (continue
\* without counting), "skip" (skippedRows++) or "valid" with the record
\* pushed.  Nothing in the body can throw (every column access is guarded by
\* the length test and ?.), so the catch of lines 147-150 is never entered.
ParseRow(raw, zone) ==
  LET ln == Trim(raw)
      columns == parseCSVLine(ln)
      city == Trim(columns[6])
      product == toLowerCase(Trim(columns[5]))
      rspValue == Trim(columns[7])
      dateStr == Trim(columns[4])
      date == NewDate(dateStr)
      year == getFullYear(date, zone)
      month == getMonth(date, zone) + 1
      rsp == RspOf(rspValue)
      none == [kind |-> "skip", point |-> <<>>]
  IN  IF ln = <<>> THEN [kind |-> "blank", point |-> <<>>]
      ELSE IF Len(columns) < 7 THEN none
      ELSE IF city = <<>> \/ product = <<>> \/ rspValue = <<>>
              \/ dateStr = <<>> THEN none
      ELSE IF ~IsFuel(product) THEN none
      ELSE IF ~date.valid THEN none
      ELSE IF year < 2017 \/ year > 2025 THEN none
      ELSE IF RspRejected(rsp) THEN none
      ELSE [kind |-> "valid",
            point |-> [city |-> city, fuelType |-> product, year |-> year,
                       month |-> month, rsp |-> Round2(rsp)]]

\* The loop of data.ts 87-151 from lines[i] on (i is 1-based here).
RECURSIVE ParseRows(_, _, _, _)
ParseRows(lines, i, zone, acc) ==
  IF i > Len(lines) THEN acc
  ELSE LET r == ParseRow(lines[i], zone)
       IN  ParseRows(lines, i + 1, zone,
             CASE r.kind = "blank" -> acc
               [] r.kind = "skip" ->
                    [acc EXCEPT !.skippedRows = @ + 1]
               [] r.kind = "valid" ->
                    [acc EXCEPT !.data = Append(@, r.point),
                                !.validRows = @ + 1])

Thrown(message) ==
  [ok |-> FALSE, error |-> message, data |-> <<>>,
   validRows |-> 0, skippedRows |-> 0]

\* Mutant: an input without any valid row returns the empty array.
parseCSVDataReturnsEmpty(text, zone) ==
  LET lines == SplitOn(text, "\n")
      acc == ParseRows(lines, 2, zone,
               [ok |-> TRUE, error |-> "", data |-> <<>>,
                validRows |-> 0, skippedRows |-> 0])
  IN  IF Len(lines) < 2 THEN Thrown(ErrTooFewLines) ELSE acc

\* Mutant: too few lines are reported like an input without valid rows.
parseCSVDataOneError(text, zone) ==
  LET lines == SplitOn(text, "\n")
      acc == ParseRows(lines, 2, zone,
               [ok |-> TRUE, error |-> "", data |-> <<>>,
                validRows |-> 0, skippedRows |-> 0])
  IN  IF Len(lines) < 2 \/ acc.validRows = 0 THEN Thrown(ErrNoValidRows)
      ELSE acc

\* parseCSVData(csvText): the returned array with the two counters it logs,
\* or the Error it throws (both throws are re-thrown by the catch of lines
\* 160-163 with the prefix "CSV parsing failed: ").
parseCSVData(text, zone) ==
  LET lines == SplitOn(text, "\n")
      acc == ParseRows(lines, 2, zone,
               [ok |-> TRUE, error |-> "", data |-> <<>>,
                validRows |-> 0, skippedRows |-> 0])
  IN  IF Len(lines) < 2 THEN Thrown(ErrTooFewLines)
      ELSE IF acc.validRows = 0 THEN Thrown(ErrNoValidRows)
      ELSE acc

(***************************************************************************)
(* Normalizer inputs.  A source describes a CSV text: its header line, its *)
(* data rows and whether a line feed ends it.  Every field of a row is     *)
(* described by its text (s) and by what it is meant to say, so that the   *)
(* properties can be stated on the rows while parseCSVData reads only the  *)
(* rendered characters.                                                    *)
(***************************************************************************)

\* Date texts with the local (year, month) they denote: in a zone behind
\* UTC (w) and in any other zone (e).
DateChoices ==
  { [s |-> <<"2", "0", "1", "7", "-", "0", "6", "-", "1", "5">>, ok |-> TRUE,
     w |-> <<2017, 6>>, e |-> <<2017, 6>>],
    [s |-> <<"2", "0", "1", "7", "-", "0", "1", "-", "0", "1">>, ok |-> TRUE,
     w |-> <<2016, 12>>, e |-> <<2017, 1>>],
    [s |-> <<"2", "0", "1", "6", "-", "1", "2", "-", "2", "8">>, ok |-> TRUE,
     w |-> <<2016, 12>>, e |-> <<2016, 12>>],
    [s |-> <<"2", "0", "2", "5", "-", "1", "2", "-", "2", "8">>, ok |-> TRUE,
     w |-> <<2025, 12>>, e |-> <<2025, 12>>],
    [s |-> <<"2", "0", "2", "6", "-", "0", "1", "-", "0", "1">>, ok |-> TRUE,
     w |-> <<2025, 12>>, e |-> <<2026, 1>>],
    [s |-> <<"x", "x">>, ok |-> FALSE, w |-> <<0, 0>>, e |-> <<0, 0>>],
    [s |-> <<>>, ok |-> FALSE, w |-> <<0, 0>>, e |-> <<0, 0>>] }

ProductChoices ==
  { [s |-> <<"P", "e", "t", "r", "o", "l">>, ok |-> TRUE, fuel |-> petrol],
    [s |-> <<"d", "i", "e", "s", "e", "l">>, ok |-> TRUE, fuel |-> diesel],
    [s |-> <<"D", "I", "E", "S", "E", "L">>, ok |-> TRUE, fuel |-> diesel],
    [s |-> <<"L", "P", "G">>, ok |-> FALSE, fuel |-> <<>>],
    [s |-> <<>>, ok |-> FALSE, fuel |-> <<>>] }

CityChoices == {<<"M", "u", "m", "b", "a", "i">>, <<"D", "e", "l", "h", "i">>, <<>>}

\* Price texts with their kind and, for the kinds that are a price, the
\* price in 1/Scale after rounding to two decimals.
PriceChoices ==
  { [s |-> <<"1", "0", "0">>, kind |-> "number", val |-> 100 * Scale],
    [s |-> <<"1", "0", "2">>, kind |-> "number", val |-> 102 * Scale],
    [s |-> <<"9", "9", ".", "5">>, kind |-> "number", val |-> 995 * 1000],
    [s |-> <<"0", ".", "1", "2", "5">>, kind |-> "number", val |-> 1300],
    [s |-> <<"N", "A">>, kind |-> "placeholder", val |-> 0],
    [s |-> <<"N", "/", "A">>, kind |-> "placeholder", val |-> 0],
    [s |-> <<>>, kind |-> "blank", val |-> 0],
    [s |-> <<"-", "5">>, kind |-> "negative", val |-> 0],
    [s |-> <<"a", "b", "c">>, kind |-> "text", val |-> 0],
    [s |-> <<"I", "n", "f", "i", "n", "i", "t", "y">>, kind |-> "infinite", val |-> 0] }

Row(kind, date, product, city, price, style) ==
  [kind |-> kind, date |-> date, product |-> product, city |-> city,
   price |-> price, style |-> style]

DateOf(s) == CHOOSE d \in DateChoices : d.s = s
ProductOf(s) == CHOOSE p \in ProductChoices : p.s = s
PriceOf(s) == CHOOSE p \in PriceChoices : p.s = s

\* Every combination of the field choices, as a plain row.
AllRows ==
  { Row("row", d, p, c, r, "plain") :
      d \in DateChoices, p \in ProductChoices, c \in CityChoices,
      r \in PriceChoices }

BlankRow ==
  Row("blank", DateOf(<<>>), ProductOf(<<>>), <<>>, PriceOf(<<>>), "plain")
ShortRow ==
  Row("short", DateOf(<<>>), ProductOf(<<>>), <<>>, PriceOf(<<>>), "plain")

\* The rows that texts of several rows are made of.
SampleRows ==
  { Row("row", DateOf(<<"2", "0", "1", "7", "-", "0", "6", "-", "1", "5">>), ProductOf(<<"P", "e", "t", "r", "o", "l">>), <<"M", "u", "m", "b", "a", "i">>,
        PriceOf(<<"1", "0", "0">>), "plain"),
    Row("row", DateOf(<<"2", "0", "2", "5", "-", "1", "2", "-", "2", "8">>), ProductOf(<<"D", "I", "E", "S", "E", "L">>), <<"D", "e", "l", "h", "i">>,
        PriceOf(<<"0", ".", "1", "2", "5">>), "quoted"),
    Row("row", DateOf(<<"2", "0", "1", "7", "-", "0", "6", "-", "1", "5">>), ProductOf(<<"d", "i", "e", "s", "e", "l">>), <<"D", "e", "l", "h", "i">>,
        PriceOf(<<"N", "A">>), "padded"),
    Row("row", DateOf(<<"2", "0", "1", "7", "-", "0", "6", "-", "1", "5">>), ProductOf(<<"L", "P", "G">>), <<"M", "u", "m", "b", "a", "i">>,
        PriceOf(<<"1", "0", "2">>), "plain"),
    Row("row", DateOf(<<"2", "0", "1", "6", "-", "1", "2", "-", "2", "8">>), ProductOf(<<"P", "e", "t", "r", "o", "l">>), <<"M", "u", "m", "b", "a", "i">>,
        PriceOf(<<"9", "9", ".", "5">>), "plain"),
    BlankRow,
    ShortRow }

\* The characters of a data row: Country,Year,Month,Calendar Day,Products,
\* Metro Cities,RSP (data.ts 12-20); "quoted" puts the city and the price
\* in double quotes, "padded" puts blanks around the fields and ends the
\* line with a carriage return.
RenderRow(r) ==
  CASE r.kind = "blank" -> <<" ", " ">>
    [] r.kind = "short" -> <<"I", "N", ",", "2", "0", "1", "7", ",", "6">>
    [] r.kind = "row" /\ r.style = "plain" ->
         <<"I", "N", ",", "2", "0", "1", "7", ",", "6", ",">> \o r.date.s \o <<",">> \o r.product.s \o <<",">>
           \o r.city \o <<",">> \o r.price.s
    [] r.kind = "row" /\ r.style = "quoted" ->
         <<"I", "N", ",", "2", "0", "1", "7", ",", "6", ",">> \o r.date.s \o <<",">> \o r.product.s \o <<",", "\"">>
           \o r.city \o <<"\"", ",", "\"">> \o r.price.s \o <<"\"">>
    [] r.kind = "row" /\ r.style = "padded" ->
         <<"I", "N", ",", " ", "2", "0", "1", "7", ",", "6", ",", " ">> \o r.date.s \o <<" ", ",", " ">> \o r.product.s \o <<",", " ", " ">>
           \o r.city \o <<" ", ",">> \o r.price.s \o <<" ", "\r">>

HeaderLine == <<"C", "o", "u", "n", "t", "r", "y", ",", "Y", "e", "a", "r", ",", "M", "o", "n", "t", "h", ",", "D", "a", "y", ",", "P", "r", "o", "d", "u", "c", "t", ",", "C", "i", "t", "y", ",", "P", "r", "i", "c", "e">>

\* A first line that reads like a valid data row.
HeaderLikeRow == <<"I", "N", ",", "2", "0", "2", "0", ",", "3", ",", "2", "0", "2", "0", "-", "0", "3", "-", "1", "5", ",", "P", "e", "t", "r", "o", "l", ",", "D", "e", "l", "h", "i", ",", "7", "7">>

Headers == {HeaderLine, HeaderLikeRow, <<>>}

RECURSIVE RenderRows(_)
RenderRows(rows) ==
  IF rows = <<>> THEN <<>>
  ELSE <<"\n">> \o RenderRow(Head(rows)) \o RenderRows(Tail(rows))

Render(src) ==
  src.header \o RenderRows(src.rows)
    \o (IF src.trailing THEN <<"\n">> ELSE <<>>)

MaxRows == 2

ParseSources ==
  { [header |-> HeaderLine, rows |-> <<r>>, trailing |-> FALSE] :
      r \in AllRows }
  \cup
  { [header |-> h, rows |-> rs, trailing |-> t] :
      h \in Headers, rs \in SeqsUpTo(SampleRows, MaxRows), t \in BOOLEAN }

NoSource == [header |-> <<>>, rows |-> <<>>, trailing |-> FALSE]
NotParsed == Thrown("")

ParseIdle ==
  /\ source = NoSource /\ csvText = <<>> /\ tz = "utcOrEast"
  /\ parsed = NotParsed /\ parsePc = "idle"

ParseInit ==
  /\ source \in ParseSources
  /\ csvText = Render(source)
  /\ tz \in TimeZones
  /\ parsed = NotParsed
  /\ parsePc = "ready"

\* One call of parseCSVData(csvText).
Parse ==
  /\ parsePc = "ready"
  /\ parsed' = parseCSVData(csvText, tz)
  /\ parsePc' = "done"
  /\ UNCHANGED <<source, csvText, tz>>
  /\ UNCHANGED <<tokVars, aggVars, loadVars, genVars, appVars>>


(***************************************************************************)
(* Aggregator: getMonthlyAverages, data.ts 267-320                         *)
(***************************************************************************)

\* JavaScript values passed as the city argument.
JsString(s) == [t |-> "string", s |-> s, n |-> 0]
JsNumber(n) == [t |-> "number", s |-> <<>>, n |-> n]
JsUndefined == [t |-> "undefined", s |-> <<>>, n |-> 0]

\* !x for these values: the empty string, 0 and undefined are falsy.
Falsy(x) ==
  \/ x.t = "undefined"
  \/ x.t = "string" /\ x.s = <<>>
  \/ x.t = "number" /\ x.n = 0

\* Number.isInteger(x)
IsInteger(x) == x.k = "fin" /\ x.v % Scale = 0

\* a + b
Plus(a, b) ==
  IF a.k = "nan" \/ b.k = "nan" THEN NaN
  ELSE IF a.k = "inf" /\ b.k = "inf"
    THEN (IF a.v = b.v THEN a ELSE NaN)
  ELSE IF a.k = "inf" THEN a
  ELSE IF b.k = "inf" THEN b
  ELSE Fin(a.v + b.v)

\* Math.round((total / count) * 100) / 100 for count > 0.
RoundedMean(total, count) ==
  IF total.k = "fin"
    THEN Fin(((2 * total.v + 100 * count) \div (200 * count)) * 100)
    ELSE total

ZeroSeries == [i \in 1..12 |-> Fin(0)]

\* new Array(12).fill(0) returned, or an exception leaving the function.
Returned(series) == [threw |-> FALSE, series |-> series]
Raised == [threw |-> TRUE, series |-> <<>>]

\* Mutant: the city is not part of the filter.
FilteredAnyCity(items, city, fuelType, year) ==
  SelectSeq(items, LAMBDA d :
    /\ d.fuelType = fuelType
    /\ year.k = "fin" /\ d.year * Scale = year.v)

\* data.ts 291-295: the filter.
Filtered(items, city, fuelType, year) ==
  SelectSeq(items, LAMBDA d :
    /\ d.city = city.s
    /\ d.fuelType = fuelType
    /\ year.k = "fin" /\ d.year * Scale = year.v)

\* data.ts 306: the records that are accumulated into bucket index.
Counted(filteredData, index) ==
  SelectSeq(filteredData, LAMBDA d :
    d.month >= 1 /\ d.month <= 12 /\ ~IsNaN(d.rsp) /\ d.month - 1 = index)

\* monthlyTotals[index] after the forEach of data.ts 305-310.
RECURSIVE Total(_)
Total(counted) ==
  IF counted = <<>> THEN Fin(0)
  ELSE Plus(Total(SubSeq(counted, 1, Len(counted) - 1)),
            counted[Len(counted)].rsp)

\* Mutant: the input checks throw outside the try block.
getMonthlyAveragesUnguarded(data, city, fuelType, year) ==
  IF \/ ~data.isArray
     \/ Falsy(city) \/ city.t # "string"
     \/ fuelType = <<>> \/ fuelType \notin {petrol, diesel}
     \/ ~IsInteger(year) \/ year.v < 2017 * Scale \/ year.v > 2025 * Scale
  THEN Raised
  ELSE Returned(
         [i \in 1..12 |->
            LET counted ==
                  Counted(Filtered(data.items, city, fuelType, year), i - 1)
            IN  IF Len(counted) > 0
                  THEN RoundedMean(Total(counted), Len(counted))
                  ELSE Fin(0)])

\* getMonthlyAverages(data, city, fuelType, year): every throw of lines
\* 275-289 is caught at 316-319, which returns twelve zeros.
getMonthlyAverages(data, city, fuelType, year) ==
  IF \/ ~data.isArray
     \/ Falsy(city) \/ city.t # "string"
     \/ fuelType = <<>> \/ fuelType \notin {petrol, diesel}
     \/ ~IsInteger(year) \/ year.v < 2017 * Scale \/ year.v > 2025 * Scale
  THEN Returned(ZeroSeries)
  ELSE LET filteredData == Filtered(data.items, city, fuelType, year)
       IN  IF Len(filteredData) = 0 THEN Returned(ZeroSeries)
           ELSE Returned(
                  [i \in 1..12 |->
                     LET counted == Counted(filteredData, i - 1)
                     IN  IF Len(counted) > 0
                           THEN RoundedMean(Total(counted), Len(counted))
                           ELSE Fin(0)])

\* Mutant: the filter of data.ts 291-295 removes the other records from data
\* itself.
DataAfterCallFilteredInPlace(data, city, fuelType, year) ==
  IF data.isArray /\ city.t = "string"
    THEN [data EXCEPT !.items = Filtered(data.items, city, fuelType, year)]
    ELSE data

\* The data argument after a call: data.filter builds a new array (291-295),
\* the forEach reads d.month and d.rsp only (305-310) and the totals, counts
\* and averages are local arrays (298-314); nothing writes to data or to a
\* record of it.
DataAfterCall(data, city, fuelType, year) == data

(***************************************************************************)
(* Aggregator inputs                                                       *)
(***************************************************************************)

Mumbai == <<"M", "u", "m", "b", "a", "i">>
Delhi == <<"D", "e", "l", "h", "i">>
Chennai == <<"C", "h", "e", "n", "n", "a", "i">>

Point(city, fuelType, year, month, rsp) ==
  [city |-> city, fuelType |-> fuelType, year |-> year, month |-> month,
   rsp |-> rsp]

\* The records datasets are made of: the two of the example (Mumbai, petrol,
\* 2023, January, 100 and 102), records that differ from them in one key
\* field, and records no PricePoint can be (month 13, price NaN).
AggRecords ==
  { Point(Mumbai, petrol, 2023, 1, Fin(100 * Scale)),
    Point(Mumbai, petrol, 2023, 1, Fin(102 * Scale)),
    Point(Mumbai, petrol, 2023, 2, Fin(1250)),
    Point(Mumbai, petrol, 2023, 2, Fin(5000)),
    Point(Mumbai, diesel, 2023, 1, Fin(90 * Scale)),
    Point(Delhi, petrol, 2023, 1, Fin(95 * Scale)),
    Point(Mumbai, petrol, 2022, 12, Fin(80 * Scale)),
    Point(Mumbai, petrol, 2023, 13, Fin(50 * Scale)),
    Point(Mumbai, petrol, 2023, 1, NaN),
    Point(Mumbai, petrol, 2023, 12, Inf(1)) }

MaxData == 2

\* The data argument: an array of records, or something that is no array.
AggDatasets ==
  { [isArray |-> TRUE, items |-> items] :
      items \in SeqsUpTo(AggRecords, MaxData) }
  \cup {[isArray |-> FALSE, items |-> <<>>]}

Query(city, fuelType, year, valid) ==
  [city |-> city, fuelType |-> fuelType, year |-> year, valid |-> valid]

\* The (city, fuelType, year) arguments, with whether they are valid.
AggQueries ==
  { Query(JsString(Mumbai), petrol, Fin(2023 * Scale), TRUE),
    Query(JsString(Delhi), petrol, Fin(2023 * Scale), TRUE),
    Query(JsString(Mumbai), diesel, Fin(2023 * Scale), TRUE),
    Query(JsString(Mumbai), petrol, Fin(2022 * Scale), TRUE),
    Query(JsString(Chennai), diesel, Fin(2017 * Scale), TRUE),
    Query(JsString(<<>>), petrol, Fin(2023 * Scale), FALSE),
    Query(JsNumber(7), petrol, Fin(2023 * Scale), FALSE),
    Query(JsUndefined, petrol, Fin(2023 * Scale), FALSE),
    Query(JsString(Mumbai), <<"l", "p", "g">>, Fin(2023 * Scale), FALSE),
    Query(JsString(Mumbai), <<"P", "e", "t", "r", "o", "l">>, Fin(2023 * Scale), FALSE),
    Query(JsString(Mumbai), <<>>, Fin(2023 * Scale), FALSE),
    Query(JsString(Mumbai), petrol, Fin(2016 * Scale), FALSE),
    Query(JsString(Mumbai), petrol, Fin(2026 * Scale), FALSE),
    Query(JsString(Mumbai), petrol, Fin(2023 * Scale + 5000), FALSE),
    Query(JsString(Mumbai), petrol, NaN, FALSE) }

NoData == [isArray |-> TRUE, items |-> <<>>]
NoQuery == Query(JsUndefined, <<>>, NaN, FALSE)
NotCalled == Returned(<<>>)

\* How many calls are made on a dataset.
MaxCalls == 2

AggIdle ==
  /\ aggData = NoData /\ query = NoQuery /\ averages = NotCalled
  /\ aggPc = "idle" /\ aggLog = <<>>

AggInit ==
  /\ aggData \in AggDatasets
  /\ query \in AggQueries
  /\ averages = NotCalled
  /\ aggPc = "ready" /\ aggLog = <<>>

\* One call of getMonthlyAverages(aggData, city, fuelType, year), the first
\* or a further one with the same arguments.
Aggregate ==
  /\ aggPc \in {"ready", "done"}
  /\ Len(aggLog) < MaxCalls
  /\ averages' =
       getMonthlyAverages(aggData, query.city, query.fuelType, query.year)
  /\ aggData' = DataAfterCall(aggData, query.city, query.fuelType, query.year)
  /\ aggLog' = Append(aggLog, [before |-> aggData, after |-> aggData',
                               series |-> averages'])
  /\ aggPc' = "done"
  /\ UNCHANGED query
  /\ UNCHANGED <<tokVars, parseVars, loadVars, genVars, appVars>>

(***************************************************************************)
(* Fallback generator: generateSampleData, data.ts 195-244                 *)
(***************************************************************************)

Kolkata == <<"K", "o", "l", "k", "a", "t", "a">>

\* data.ts 22-28
metroCities == <<Mumbai, Delhi, Chennai, Kolkata>>
fuelTypes == <<petrol, diesel>>
availableYears == <<2017, 2018, 2019, 2020, 2021, 2022, 2023, 2024, 2025>>

\* getCityMultiplier, in 1/100: the table has other cities too, none of them
\* in metroCities; a city not in the table gets 1.0.
getCityMultiplier(city) ==
  CASE city = Mumbai -> 120
    [] city = Delhi -> 110
    [] city = Chennai -> 105
    [] city = Kolkata -> 100
    [] OTHER -> 100

\* getMonthVariation
getMonthVariation(month) ==
  <<-5, -3, 2, 5, 8, 10, 12, 10, 5, 0, -2, -4>>[month]

\* Values of (Math.random() - 0.5) * 10, which lies in [-5, 5), in 1/Scale.
RandomDraws == <<-50000, -12345, 0, 25050, 49999>>

\* The random variation of call number k (from 0) of an invocation whose
\* random stream is the one numbered seed.
RandomVariation(seed, k) == RandomDraws[((seed + k) % Len(RandomDraws)) + 1]

Max0(x) == IF x > 0 THEN x ELSE 0

\* Mutant: the price is stored without the rounding of data.ts 214.
SamplePointUnrounded(city, fuelType, year, month, randomVariation) ==
  [city |-> city, fuelType |-> fuelType, year |-> year, month |-> month,
   rsp |-> Fin(Max0((IF fuelType = petrol THEN 80 ELSE 75)
                      * getCityMultiplier(city) * (100 + (year - 2021) * 5)
                      + getMonthVariation(month) * Scale + randomVariation))]

\* The record pushed for (city, fuelType, year, month), data.ts 202-216,
\* with the given random variation.
SamplePoint(city, fuelType, year, month, randomVariation) ==
  LET basePrice == IF fuelType = petrol THEN 80 ELSE 75
      cityMultiplier == getCityMultiplier(city)
      yearMultiplier == 100 + (year - 2021) * 5
      monthVariation == getMonthVariation(month)
      rsp == Max0(basePrice * cityMultiplier * yearMultiplier
                    + monthVariation * Scale + randomVariation)
  IN  Point(city, fuelType, year, month, Round2(Fin(rsp)))

\* generateSampleData(): the four nested loops, in their order.
generateSampleData(seed) ==
  LET nf == Len(fuelTypes)
      ny == Len(availableYears)
  IN  [n \in 1..(Len(metroCities) * nf * ny * 12) |->
         LET k == n - 1
         IN  SamplePoint(metroCities[(k \div (nf * ny * 12)) + 1],
                         fuelTypes[((k \div (ny * 12)) % nf) + 1],
                         availableYears[((k \div 12) % ny) + 1],
                         (k % 12) + 1,
                         RandomVariation(seed, k))]

\* The random streams: each starts the cycle of RandomDraws at another
\* draw, so that over all streams every record meets every draw.
RandomStreams == 0..(Len(RandomDraws) - 1)

\* How many times generateSampleData is invoked.
MaxGens == 3

GenIdle == genLog = <<>> /\ sample = <<>> /\ firstSample = <<>>

GenInit == GenIdle

\* One invocation of generateSampleData().
Generate ==
  /\ Len(genLog) < MaxGens
  /\ \E stream \in RandomStreams :
       /\ sample' = generateSampleData(stream)
       /\ firstSample' = IF genLog = <<>> THEN sample' ELSE firstSample
       /\ genLog' = Append(genLog, stream)
  /\ UNCHANGED <<tokVars, parseVars, aggVars, loadVars, appVars>>

(***************************************************************************)
(* Loader: loadRealData, data.ts 46-72                                     *)
(***************************************************************************)

\* s.includes(sub)
Includes(s, sub) ==
  \E i \in 0..(Len(s) - Len(sub)) : SubSeq(s, i + 1, i + Len(sub)) = sub

\* The content-type header of the response: absent, or its value; csv says
\* whether the value contains text/csv.
ContentTypes ==
  { [present |-> FALSE, s |-> <<>>, csv |-> FALSE],
    [present |-> TRUE, s |-> <<"t", "e", "x", "t", "/", "c", "s", "v">>, csv |-> TRUE],
    [present |-> TRUE, s |-> <<"t", "e", "x", "t", "/", "c", "s", "v", ";", " ", "c", "h", "a", "r", "s", "e", "t", "=", "u", "t", "f", "-", "8">>, csv |-> TRUE],
    [present |-> TRUE, s |-> <<"t", "e", "x", "t", "/", "h", "t", "m", "l">>, csv |-> FALSE],
    [present |-> TRUE, s |-> <<"t", "e", "x", "t", "/", "p", "l", "a", "i", "n">>, csv |-> FALSE] }

Pending == [state |-> "pending", via |-> "none", value |-> <<>>]
Fulfilled(value, via) == [state |-> "fulfilled", via |-> via, value |-> value]
Rejected == [state |-> "rejected", via |-> "none", value |-> <<>>]

\* The catch block, data.ts 68-71.
Fallback(seed) == Fulfilled(generateSampleData(seed), "fallback")

\* data.ts 49-55: the response passes the status and content-type checks.
ResponseAccepted(ok, contentType) ==
  ok /\ contentType.present /\ Includes(contentType.s, <<"t", "e", "x", "t", "/", "c", "s", "v">>)

\* Mutant: a parse failure is not caught and rejects the promise.
AfterTextNoCatch(text, zone, seed) ==
  LET parsedData == parseCSVData(text, zone)
  IN  IF Trim(text) = <<>> THEN Fallback(seed)
      ELSE IF ~parsedData.ok THEN Rejected
      ELSE Fulfilled(parsedData.data, "parsed")

\* data.ts 58-67 with the catch: what loadRealData settles with once
\* response.text() has given csvText.
AfterText(text, zone, seed) ==
  LET parsedData == parseCSVData(text, zone)
  IN  IF text = <<>> \/ Len(Trim(text)) = 0 THEN Fallback(seed)
      ELSE IF ~parsedData.ok THEN Fallback(seed)
      ELSE IF Len(parsedData.data) = 0 THEN Fallback(seed)
      ELSE Fulfilled(parsedData.data, "parsed")

(***************************************************************************)
(* Loader inputs and steps                                                 *)
(***************************************************************************)

Body(header, rows, trailing) ==
  [header |-> header, rows |-> rows, trailing |-> trailing]

ValidRowA ==
  Row("row", DateOf(<<"2", "0", "1", "7", "-", "0", "6", "-", "1", "5">>), ProductOf(<<"P", "e", "t", "r", "o", "l">>), <<"M", "u", "m", "b", "a", "i">>,
      PriceOf(<<"1", "0", "0">>), "plain")
ValidRowB ==
  Row("row", DateOf(<<"2", "0", "2", "5", "-", "1", "2", "-", "2", "8">>), ProductOf(<<"D", "I", "E", "S", "E", "L">>), <<"D", "e", "l", "h", "i">>,
      PriceOf(<<"0", ".", "1", "2", "5">>), "quoted")
ValidRowNA ==
  Row("row", DateOf(<<"2", "0", "1", "7", "-", "0", "1", "-", "0", "1">>), ProductOf(<<"d", "i", "e", "s", "e", "l">>), <<"D", "e", "l", "h", "i">>,
      PriceOf(<<"N", "A">>), "padded")
LpgRow ==
  Row("row", DateOf(<<"2", "0", "1", "7", "-", "0", "6", "-", "1", "5">>), ProductOf(<<"L", "P", "G">>), <<"M", "u", "m", "b", "a", "i">>,
      PriceOf(<<"1", "0", "2">>), "plain")

\* What /data.csv holds: nothing, blanks only, a header only, rows none of
\* which is valid, and texts with valid rows.
LoadSources ==
  { Body(<<>>, <<>>, FALSE),
    Body(<<" ">>, <<>>, TRUE),
    Body(HeaderLine, <<>>, FALSE),
    Body(HeaderLine, <<>>, TRUE),
    Body(HeaderLine, <<LpgRow>>, TRUE),
    Body(HeaderLine, <<ShortRow, BlankRow>>, FALSE),
    Body(HeaderLine, <<ValidRowA>>, FALSE),
    Body(HeaderLine, <<ValidRowNA>>, TRUE),
    Body(HeaderLine, <<ValidRowA, LpgRow, ValidRowB>>, TRUE),
    Body(<<>>, <<BlankRow, ValidRowB, ValidRowA>>, TRUE) }

\* The random streams an invocation of generateSampleData may get.
MaxSeed == 2

NoNet ==
  [fetch |-> "pending", ok |-> FALSE,
   contentType |-> [present |-> FALSE, s |-> <<>>, csv |-> FALSE],
   text |-> "pending"]

LoadIdle == net = NoNet /\ rng = 0 /\ loadResult = Pending /\ loadPc = "idle"

\* loadRealData() has been called and awaits fetch('/data.csv').
LoadInit ==
  /\ source \in LoadSources
  /\ tz \in TimeZones
  /\ rng \in 0..MaxSeed
  /\ csvText = <<>> /\ parsed = NotParsed /\ parsePc = "idle"
  /\ net = NoNet /\ loadResult = Pending /\ loadPc = "fetching"

\* fetch rejects (network failure): the catch returns the sample data.
FetchRejects ==
  /\ loadPc = "fetching"
  /\ net' = [net EXCEPT !.fetch = "rejected"]
  /\ loadResult' = Fallback(rng)
  /\ loadPc' = "settled"
  /\ UNCHANGED <<source, csvText, tz, parsed, parsePc, rng>>
  /\ UNCHANGED <<tokVars, aggVars, genVars, appVars>>

\* fetch resolves with a response: data.ts 49-57, up to await response.text().
FetchResolves ==
  /\ loadPc = "fetching"
  /\ \E ok \in BOOLEAN, contentType \in ContentTypes :
       /\ net' = [net EXCEPT !.fetch = "resolved", !.ok = ok,
                             !.contentType = contentType]
       /\ IF ResponseAccepted(ok, contentType)
            THEN loadPc' = "readingText" /\ UNCHANGED loadResult
            ELSE loadPc' = "settled" /\ loadResult' = Fallback(rng)
  /\ UNCHANGED <<source, csvText, tz, parsed, parsePc, rng>>
  /\ UNCHANGED <<tokVars, aggVars, genVars, appVars>>

\* response.text() rejects (the body cannot be read).
TextRejects ==
  /\ loadPc = "readingText"
  /\ net' = [net EXCEPT !.text = "rejected"]
  /\ loadResult' = Fallback(rng)
  /\ loadPc' = "settled"
  /\ UNCHANGED <<source, csvText, tz, parsed, parsePc, rng>>
  /\ UNCHANGED <<tokVars, aggVars, genVars, appVars>>

\* response.text() resolves with the body: data.ts 58-67.
TextResolves ==
  /\ loadPc = "readingText"
  /\ net' = [net EXCEPT !.text = "resolved"]
  /\ csvText' = Render(source)
  /\ loadResult' = AfterText(Render(source), tz, rng)
  /\ loadPc' = "settled"
  /\ UNCHANGED <<source, tz, parsed, parsePc, rng>>
  /\ UNCHANGED <<tokVars, aggVars, genVars, appVars>>


(***************************************************************************)
(* Application: RSPVisualizationApp, data.ts 333-585                       *)
(***************************************************************************)

\* parseInt(str): leading whitespace, then the longest run of decimal
\* digits; NaN when there is none.  (The values of the year select have no
\* sign and no radix prefix.)
parseInt(str) ==
  LET digits == DigitPrefix(TrimStart(str))
  IN  IF digits = <<>> THEN NaN ELSE Fin(IntVal(digits) * Scale)

\* value > 0
IsPositive(x) == x.k # "nan" /\ x.v > 0

\* showStats() and hideStats(): the display of statsContainer after them.
showStats(display) == "grid"
hideStats(display) == "none"

\* updateStatistics(monthlyData): the display of statsContainer after it.
\* Without a value > 0 it hides the container and returns; otherwise it
\* writes the four figures and leaves the display alone.
updateStatistics(display, monthlyData) ==
  LET validData == SelectSeq(monthlyData, IsPositive)
  IN  IF Len(validData) = 0 THEN hideStats(display) ELSE display

\* RSPChart.updateChart(monthlyData, city, fuelType, year): what the chart
\* shows after it.
ChartAfterUpdate(monthlyData, city, fuelType, year) ==
  IF city = <<>> \/ fuelType = <<>> \/ IsNaN(year) \/ year = Fin(0)
    THEN "empty"
  ELSE IF Len(monthlyData) # 12 THEN "error"
  ELSE IF ~IsInteger(year) \/ year.v < 2017 * Scale \/ year.v > 2025 * Scale
    THEN "error"
  ELSE "bars"

\* Mutant: loadData stores the loaded array without its last record.
LoadedDataTruncated(result) ==
  SubSeq(result.value, 1, Len(result.value) - 1)

\* this.data = await loadRealData(): the value assigned.
LoadedData(result) == result.value

NoUpdate == [kind |-> "none", loaded |-> FALSE, series |-> <<>>]

\* What a run of updateChart is recorded as.
Update(kind, series) ==
  [kind |-> kind, loaded |-> dataWrites > 0, series |-> series]

\* updateChart() with the select values as they are when the handler runs.
\* Nothing in its try block throws (getMonthlyAverages, RSPChart.updateChart
\* and updateStatistics catch their own errors), so the catch of data.ts
\* 484-490 is never entered.
updateChart(cityValue, fuelValue, yearValue) ==
  LET selectedCity == cityValue
      selectedFuel == fuelValue
      selectedYear == parseInt(yearValue)
      thisData == [isArray |-> TRUE, items |-> appData]
      monthlyAverages ==
        getMonthlyAverages(thisData, JsString(selectedCity), selectedFuel,
                           selectedYear).series
  IN  IF ~isInitialized \/ chart = "null"
        THEN /\ lastUpdate' = Update("returned", <<>>)
             /\ UNCHANGED <<chart, statsDisplay, appData>>
      ELSE IF /\ selectedCity # <<>> /\ selectedFuel # <<>>
              /\ selectedYear # Fin(0) /\ ~IsNaN(selectedYear)
        THEN /\ appData' = DataAfterCall(thisData, JsString(selectedCity),
                                         selectedFuel, selectedYear).items
             /\ chart' = ChartAfterUpdate(monthlyAverages, selectedCity,
                                          selectedFuel, selectedYear)
             /\ statsDisplay' =
                  showStats(updateStatistics(statsDisplay, monthlyAverages))
             /\ lastUpdate' = Update("query", monthlyAverages)
        ELSE /\ chart' = ChartAfterUpdate(<<>>, <<>>, <<>>, Fin(0))
             /\ statsDisplay' = hideStats(statsDisplay)
             /\ lastUpdate' = Update("empty", <<>>)
             /\ UNCHANGED appData

(***************************************************************************)
(* Application inputs and steps                                            *)
(***************************************************************************)

\* The options the user picks from: the placeholder option with the empty
\* value, and some of the cities, fuel types and years.
CityOptions == {<<>>, Mumbai, Delhi}
FuelOptions == {<<>>, petrol}
YearOptions == {<<>>, <<"2", "0", "1", "7">>, <<"2", "0", "2", "3">>}

\* What /data.csv holds when the page loads: one valid row (Mumbai, petrol,
\* June 2017, 100), or no valid row.
AppSources ==
  { Body(HeaderLine, <<ValidRowA>>, FALSE),
    Body(HeaderLine, <<LpgRow>>, TRUE) }

AppIdle ==
  /\ appPc = "idle" /\ isInitialized = FALSE /\ chart = "null"
  /\ appData = <<>> /\ dataWrites = 0 /\ loadDataPc = "idle"
  /\ citySelect = <<>> /\ fuelSelect = <<>> /\ yearSelect = <<>>
  /\ statsDisplay = "css" /\ loadingDisplay = "css"
  /\ lastUpdate = NoUpdate

\* The page before DOMContentLoaded: the fields of RSPVisualizationApp as
\* their initializers leave them, nothing fetched yet.  The host is at or
\* east of UTC and Math.random gives the stream 0; the other hosts and
\* streams are those of the normalizer, the loader and the generator.
AppInit ==
  /\ appPc = "start" /\ isInitialized = FALSE /\ chart = "null"
  /\ appData = <<>> /\ dataWrites = 0 /\ loadDataPc = "idle"
  /\ citySelect = <<>> /\ fuelSelect = <<>> /\ yearSelect = <<>>
  /\ statsDisplay = "css" /\ loadingDisplay = "css"
  /\ lastUpdate = NoUpdate
  /\ source \in AppSources
  /\ tz = "utcOrEast"
  /\ csvText = <<>> /\ parsed = NotParsed /\ parsePc = "idle"
  /\ LoadIdle

\* DOMContentLoaded: the constructor.  initializeElements throws when one of
\* the five elements is missing, and the constructor's catch ends it there;
\* initializeChart catches the failure of new RSPChart and leaves chart
\* null.  loadData() runs into loadRealData() up to its await fetch and
\* returns its promise, then isInitialized is set.
Construct ==
  /\ appPc = "start"
  /\ \E elementsFound \in BOOLEAN, chartBuilt \in BOOLEAN :
       IF ~elementsFound
         THEN /\ appPc' = "failed"
              /\ UNCHANGED <<isInitialized, chart, loadDataPc, loadPc>>
         ELSE /\ chart' = (IF chartBuilt THEN "blank" ELSE "null")
              /\ loadPc' = "fetching"
              /\ loadDataPc' = "awaiting"
              /\ isInitialized' = TRUE
              /\ appPc' = "running"
  /\ UNCHANGED <<appData, dataWrites, citySelect, fuelSelect, yearSelect,
                 statsDisplay, loadingDisplay, lastUpdate>>
  /\ UNCHANGED <<net, rng, loadResult>>
  /\ UNCHANGED <<tokVars, parseVars, aggVars, genVars>>

\* loadData resumes once the promise of loadRealData is settled: the
\* assignment and hideLoading, or the catch and hideLoading.
LoadDataResumes ==
  /\ loadDataPc = "awaiting" /\ loadPc = "settled"
  /\ IF loadResult.state = "fulfilled"
       THEN appData' = LoadedData(loadResult) /\ dataWrites' = dataWrites + 1
       ELSE UNCHANGED <<appData, dataWrites>>
  /\ loadingDisplay' = "none"
  /\ loadDataPc' = "done"
  /\ UNCHANGED <<appPc, isInitialized, chart, citySelect, fuelSelect,
                 yearSelect, statsDisplay, lastUpdate>>
  /\ UNCHANGED <<tokVars, parseVars, aggVars, loadVars, genVars>>

\* The user picks another city: the change listener runs updateChart.
ChangeCity ==
  /\ appPc = "running"
  /\ \E value \in CityOptions \ {citySelect} :
       /\ citySelect' = value
       /\ updateChart(value, fuelSelect, yearSelect)
  /\ UNCHANGED <<appPc, isInitialized, dataWrites, loadDataPc, fuelSelect,
                 yearSelect, loadingDisplay>>
  /\ UNCHANGED <<tokVars, parseVars, aggVars, loadVars, genVars>>

\* The user picks another fuel type.
ChangeFuel ==
  /\ appPc = "running"
  /\ \E value \in FuelOptions \ {fuelSelect} :
       /\ fuelSelect' = value
       /\ updateChart(citySelect, value, yearSelect)
  /\ UNCHANGED <<appPc, isInitialized, dataWrites, loadDataPc, citySelect,
                 yearSelect, loadingDisplay>>
  /\ UNCHANGED <<tokVars, parseVars, aggVars, loadVars, genVars>>

\* The user picks another year.
ChangeYear ==
  /\ appPc = "running"
  /\ \E value \in YearOptions \ {yearSelect} :
       /\ yearSelect' = value
       /\ updateChart(citySelect, fuelSelect, value)
  /\ UNCHANGED <<appPc, isInitialized, dataWrites, loadDataPc, citySelect,
                 fuelSelect, loadingDisplay>>
  /\ UNCHANGED <<tokVars, parseVars, aggVars, loadVars, genVars>>

\* The window is resized: the listener calls chart.resize() when there is a
\* chart, which redraws what the chart shows.
Resize ==
  /\ appPc = "running"
  /\ UNCHANGED vars

(***************************************************************************)
(* Specifications: one per component, the other components idle            *)
(***************************************************************************)

InitTok == TokInit /\ ParseIdle /\ AggIdle /\ LoadIdle /\ GenIdle /\ AppIdle
NextTok == Tokenize
SpecTok == InitTok /\ [][NextTok]_vars

InitParse ==
  ParseInit /\ TokIdle /\ AggIdle /\ LoadIdle /\ GenIdle /\ AppIdle
NextParse == Parse
SpecParse == InitParse /\ [][NextParse]_vars

InitAgg ==
  AggInit /\ TokIdle /\ ParseIdle /\ LoadIdle /\ GenIdle /\ AppIdle
NextAgg == Aggregate
SpecAgg == InitAgg /\ [][NextAgg]_vars

InitLoad == LoadInit /\ TokIdle /\ AggIdle /\ GenIdle /\ AppIdle
NextLoad == FetchRejects \/ FetchResolves \/ TextRejects \/ TextResolves
SpecLoad == InitLoad /\ [][NextLoad]_vars

InitGen ==
  GenInit /\ TokIdle /\ ParseIdle /\ AggIdle /\ LoadIdle /\ AppIdle
NextGen == Generate
SpecGen == InitGen /\ [][NextGen]_vars

InitApp == AppInit /\ TokIdle /\ AggIdle /\ GenIdle
NextApp ==
  \/ Construct
  \/ FetchRejects \/ FetchResolves \/ TextRejects \/ TextResolves
  \/ LoadDataResumes
  \/ ChangeCity \/ ChangeFuel \/ ChangeYear
  \/ Resize
SpecApp == InitApp /\ [][NextApp]_vars

(***************************************************************************)
(* Tokenizer properties                                                    *)
(***************************************************************************)

HasQuote(ln) == \E i \in 1..Len(ln) : ln[i] = "\""

\* Position i of ln lies inside a quoted section: an odd number of quotes
\* precedes it.
InsideQuotes(ln, i) ==
  Cardinality({j \in 1..(i - 1) : ln[j] = "\""}) % 2 = 1

SplittingCommas(ln) ==
  {i \in 1..Len(ln) : ln[i] = "," /\ ~InsideQuotes(ln, i)}

QuotedCommas(ln) ==
  {i \in 1..Len(ln) : ln[i] = "," /\ InsideQuotes(ln, i)}

\* The number of commas in the fields fs, none longer than n.
CommasIn(fs, n) ==
  Cardinality({p \in (1..Len(fs)) \X (1..n) :
                 p[2] <= Len(fs[p[1]]) /\ fs[p[1]][p[2]] = ","})

QuotedExampleFields == << <<"a">>, <<"b", ",", "c">>, <<"d">> >>

\* C7: a double quote is never part of an output field, fields are split
\* exactly at the commas outside quoted sections, the commas inside quoted
\* sections are kept as field content, and a,"b,c",d gives a / b,c / d.
C7_QuotedCommaIsContent ==
  tokPc = "done" =>
    /\ \A f \in 1..Len(fields) : ~HasQuote(fields[f])
    /\ Len(fields) = 1 + Cardinality(SplittingCommas(line))
    /\ CommasIn(fields, Len(line)) = Cardinality(QuotedCommas(line))
    /\ (line = QuotedExample => fields = QuotedExampleFields)

C7_Witness ==
  tokPc = "done" /\ line = QuotedExample /\ fields = QuotedExampleFields

\* C8 as stated: on a line without a double quote the fields equal the
\* pieces of a naive split on ','.
C8_EqualsNaiveSplit ==
  (tokPc = "done" /\ ~HasQuote(line)) => fields = SplitOn(line, ",")

\* C8 amended: on a line without a double quote there are as many fields as
\* pieces of a naive split on ',', and each field is the corresponding piece
\* with its leading and trailing whitespace removed.
C8_EqualsTrimmedNaiveSplit ==
  (tokPc = "done" /\ ~HasQuote(line)) =>
    LET pieces == SplitOn(line, ",")
    IN  /\ Len(fields) = Len(pieces)
        /\ \A i \in 1..Len(pieces) : fields[i] = Trim(pieces[i])

C8_Witness ==
  /\ tokPc = "done"
  /\ ~HasQuote(line)
  /\ Len(fields) = 3
  /\ \E i \in 1..3 : fields[i] # SplitOn(line, ",")[i]
  /\ fields[3] = <<>>

(***************************************************************************)
(* Normalizer properties                                                   *)
(***************************************************************************)

Rows == source.rows

\* The local (year, month) the date text of a row denotes on this host.
LocalYearMonth(row) == IF tz = "west" THEN row.date.w ELSE row.date.e

DateInRange(row) ==
  row.date.ok /\ LocalYearMonth(row)[1] >= 2017 /\ LocalYearMonth(row)[1] <= 2025

\* Every field of the row but the price is valid.
ValidButPrice(row) ==
  row.kind = "row" /\ row.city # <<>> /\ row.product.ok /\ DateInRange(row)

\* Every field of the row but the product is valid.
ValidButProduct(row) ==
  /\ row.kind = "row" /\ row.city # <<>> /\ DateInRange(row)
  /\ row.price.kind \in {"number", "placeholder"}

\* Rows the normalizer has to keep, and rows it has to drop.  (A blank and
\* an infinite price are in neither class.)
MustKeep(row) ==
  ValidButPrice(row) /\ row.price.kind \in {"number", "placeholder"}

MustDrop(row) ==
  \/ row.kind # "row"
  \/ row.city = <<>>
  \/ ~row.product.ok
  \/ ~DateInRange(row)
  \/ row.price.kind \in {"negative", "text"}

\* The record a kept row yields.
ExpectedPoint(row) ==
  [city |-> row.city, fuelType |-> row.product.fuel,
   year |-> LocalYearMonth(row)[1], month |-> LocalYearMonth(row)[2],
   rsp |-> Fin(row.price.val)]

Yields(row) ==
  \E j \in 1..Len(parsed.data) : parsed.data[j] = ExpectedPoint(row)

\* The number of lines of the text: one more than its line feeds.
LineCount == 1 + Cardinality({i \in 1..Len(csvText) : csvText[i] = "\n"})

\* C2: every record parseCSVData returns has a non-empty city, fuel type
\* petrol or diesel, a year in 2017..2025, a month in 1..12 and a finite
\* price >= 0 with two decimals.
C2_AllFieldConstraints ==
  (parsePc = "done" /\ parsed.ok) =>
    \A j \in 1..Len(parsed.data) :
      LET d == parsed.data[j]
      IN  /\ d.city # <<>>
          /\ d.fuelType \in {petrol, diesel}
          /\ d.year \in 2017..2025
          /\ d.month \in 1..12
          /\ d.rsp.k = "fin" /\ d.rsp.v >= 0 /\ d.rsp.v % 100 = 0

\* C5: a text of fewer than 2 lines makes parseCSVData throw the "at least
\* a header and one data row" error, and that error is thrown in no other
\* case: a text of 2 lines or more without a valid row gets another one.
C5_TooFewLinesError ==
  parsePc = "done" =>
    /\ LineCount < 2 => (~parsed.ok /\ parsed.error = ErrTooFewLines)
    /\ LineCount >= 2 => parsed.error # ErrTooFewLines
    /\ ErrTooFewLines # ErrNoValidRows

C5_Witness ==
  /\ parsePc = "done"
  /\ source.header = HeaderLine /\ Rows = <<>> /\ ~source.trailing
  /\ ~parsed.ok /\ parsed.error = ErrTooFewLines

\* C6: on a text of a header and at least one more line, parseCSVData
\* either returns a non-empty array or throws the "No valid data rows"
\* error; it throws when every data line has to be dropped and returns when
\* some data line has to be kept.
C6_NoValidRowsError ==
  (parsePc = "done" /\ LineCount >= 2) =>
    /\ \/ parsed.ok /\ Len(parsed.data) >= 1
       \/ ~parsed.ok /\ parsed.error = ErrNoValidRows /\ parsed.data = <<>>
    /\ (\A i \in 1..Len(Rows) : MustDrop(Rows[i])) => ~parsed.ok
    /\ (\E i \in 1..Len(Rows) : MustKeep(Rows[i])) => parsed.ok

C6_Witness ==
  /\ parsePc = "done"
  /\ source.header = HeaderLine /\ Len(Rows) = 1
  /\ Rows[1].kind = "row" /\ MustDrop(Rows[1])
  /\ ~parsed.ok /\ parsed.error = ErrNoValidRows

\* C9: a row whose product is neither petrol nor diesel in any letter case
\* never yields a record (there are at most as many records as rows with
\* such a product), every stored fuel type is the lower-case petrol or
\* diesel, and a row whose product differs from them in case only, valid
\* otherwise, yields its record.
C9_ProductFilter ==
  parsePc = "done" =>
    /\ Len(parsed.data) <=
         Cardinality({i \in 1..Len(Rows) :
                        Rows[i].kind = "row" /\ Rows[i].product.ok})
    /\ \A j \in 1..Len(parsed.data) :
         parsed.data[j].fuelType \in {petrol, diesel}
    /\ \A i \in 1..Len(Rows) :
         (MustKeep(Rows[i]) /\ Rows[i].product.s # Rows[i].product.fuel)
           => (parsed.ok /\ Yields(Rows[i]))

C9_Witness ==
  /\ parsePc = "done"
  /\ Len(Rows) = 2
  /\ ~Rows[1].product.ok /\ Rows[1].product.s # <<>>
  /\ ValidButProduct(Rows[1])
  /\ MustKeep(Rows[2]) /\ Rows[2].product.s # Rows[2].product.fuel
  /\ Len(parsed.data) = 1 /\ Yields(Rows[2])

PlaceholderRows ==
  {i \in 1..Len(Rows) :
     ValidButPrice(Rows[i]) /\ Rows[i].price.kind = "placeholder"}

\* C10: a row with the price NA or N/A and valid other fields is kept: it
\* yields its record with price 0, and it is counted as valid, not as
\* skipped.
C10_PlaceholderPriceIsZero ==
  (parsePc = "done" /\ PlaceholderRows # {}) =>
    /\ parsed.ok
    /\ \A i \in PlaceholderRows :
         ExpectedPoint(Rows[i]).rsp = Fin(0) /\ Yields(Rows[i])
    /\ parsed.validRows >= Cardinality(PlaceholderRows)
    /\ parsed.skippedRows <=
         Cardinality({i \in 1..Len(Rows) : Rows[i].kind # "blank"})
           - Cardinality(PlaceholderRows)

C10_Witness ==
  /\ parsePc = "done"
  /\ Len(Rows) = 1 /\ 1 \in PlaceholderRows
  /\ parsed.ok /\ parsed.skippedRows = 0 /\ parsed.validRows = 1
  /\ parsed.data = <<ExpectedPoint(Rows[1])>>
  /\ parsed.data[1].rsp = Fin(0)

BlankPriceRows ==
  {i \in 1..Len(Rows) :
     ValidButPrice(Rows[i]) /\ Rows[i].price.kind = "blank"}

\* C11: a row with an empty price field and valid other fields is kept: it
\* yields its record with price 0 instead of being dropped.
C11_BlankPriceIsZero ==
  (parsePc = "done" /\ BlankPriceRows # {}) =>
    /\ parsed.ok
    /\ \A i \in BlankPriceRows :
         ExpectedPoint(Rows[i]).rsp = Fin(0) /\ Yields(Rows[i])

\* The year written in the date text of a row.
WrittenYear(row) == row.date.e[1]

\* Every field of the row but the year of its date is valid.
ValidButYear(row) ==
  /\ row.kind = "row" /\ row.city # <<>> /\ row.product.ok /\ row.date.ok
  /\ row.price.kind \in {"number", "placeholder"}

InYearRange(row) == WrittenYear(row) >= 2017 /\ WrittenYear(row) <= 2025

\* C12: of rows that are valid but for the year, exactly those dated 2017 to
\* 2025 are kept, in order and with the year of their date: a row dated 2016
\* or 2026 is dropped, a row dated 2017 or 2025 is kept.
C12_YearRange ==
  (parsePc = "done" /\ \A i \in 1..Len(Rows) : ValidButYear(Rows[i])) =>
    LET kept == SelectSeq(Rows, InYearRange)
    IN  /\ Len(parsed.data) = Len(kept)
        /\ \A j \in 1..Len(kept) : parsed.data[j].year = WrittenYear(kept[j])

\* C12 on a host at or east of UTC, where the local year of a date is the
\* year written in it.
C12_YearRangeEastOfUTC ==
  tz = "utcOrEast" => C12_YearRange

\* A valid data line: a city, a product that is petrol or diesel in any
\* letter case, a date of 2017 to 2025, and a price that is a non-negative
\* number, a placeholder or empty.
ValidLine(row) ==
  /\ row.kind = "row" /\ row.city # <<>> /\ row.product.ok
  /\ row.date.ok /\ InYearRange(row)
  /\ row.price.kind \in {"number", "placeholder", "blank"}

\* The PricePoint of a valid data line.
PricePointOf(row) ==
  [city |-> row.city, fuelType |-> row.product.fuel,
   year |-> row.date.e[1], month |-> row.date.e[2],
   rsp |-> Fin(row.price.val)]

RECURSIVE PricePointsOf(_)
PricePointsOf(rows) ==
  IF rows = <<>> THEN <<>>
  ELSE (IF ValidLine(Head(rows)) THEN <<PricePointOf(Head(rows))>> ELSE <<>>)
         \o PricePointsOf(Tail(rows))

\* The blank lines after the header: the blank rows, and the empty line
\* after a final line feed.
BlankLines ==
  Cardinality({i \in 1..Len(Rows) : Rows[i].kind = "blank"})
    + (IF source.trailing THEN 1 ELSE 0)

\* C16: when some data line is valid, parseCSVData returns exactly the
\* PricePoints of the valid data lines in input order, whatever invalid,
\* short or blank lines stand between them and whatever line 1 holds, and
\* its counts of valid and skipped rows plus the blank lines add up to the
\* number of lines after the header.
C16_ExactlyValidRows ==
  (parsePc = "done" /\ \E i \in 1..Len(Rows) : ValidLine(Rows[i])) =>
    /\ parsed.ok
    /\ parsed.data = PricePointsOf(Rows)
    /\ parsed.validRows = Len(parsed.data)
    /\ parsed.validRows + parsed.skippedRows + BlankLines = LineCount - 1

\* A row on which the code departs from the field rules: an empty price
\* (C11), an infinite price (C2), a date whose local year or month is not
\* the written one (C12).
Contested(row) ==
  /\ row.kind = "row"
  /\ \/ row.price.kind \in {"blank", "infinite"}
     \/ row.date.ok /\ LocalYearMonth(row) # row.date.e

\* C16 on the inputs without such a row.
C16_ExactlyValidRowsUncontested ==
  (\A i \in 1..Len(Rows) : ~Contested(Rows[i])) => C16_ExactlyValidRows

C16_UncontestedWitness ==
  /\ parsePc = "done"
  /\ source.header = HeaderLikeRow /\ source.trailing
  /\ Len(Rows) = 2 /\ Rows[1].kind = "short" /\ ValidLine(Rows[2])
  /\ parsed.ok /\ parsed.data = <<PricePointOf(Rows[2])>>
  /\ parsed.validRows = 1 /\ parsed.skippedRows = 1

(***************************************************************************)
(* Aggregator properties                                                   *)
(***************************************************************************)

Series == averages.series

AllZero(series) ==
  DOMAIN series = 1..12 /\ \A i \in 1..12 : series[i] = Fin(0)

Matching(m) ==
  {j \in 1..Len(aggData.items) :
     LET d == aggData.items[j]
     IN  /\ JsString(d.city) = query.city
         /\ d.fuelType = query.fuelType
         /\ Fin(d.year * Scale) = query.year
         /\ d.month = m
         /\ d.rsp.k # "nan"}

RECURSIVE SumOfPrices(_)
SumOfPrices(js) ==
  IF js = {} THEN 0
  ELSE LET j == CHOOSE x \in js : TRUE
       IN  aggData.items[j].rsp.v + SumOfPrices(js \ {j})

\* x is the mean of the prices of the records js rounded to two decimals: a
\* multiple of 1/100 at most half of 1/100 away from sum/count (the upper
\* one at a tie), or Infinity if one of the prices is.
IsRoundedMean(x, js) ==
  IF \E j \in js : aggData.items[j].rsp.k = "inf" THEN x = Inf(1)
  ELSE LET n == Cardinality(js)
           sum == SumOfPrices(js)
       IN  /\ x.k = "fin" /\ x.v % 100 = 0
           /\ 2 * (n * x.v - sum) > -100 * n
           /\ 2 * (n * x.v - sum) <= 100 * n

ExampleItems ==
  << Point(Mumbai, petrol, 2023, 1, Fin(100 * Scale)),
     Point(Mumbai, petrol, 2023, 1, Fin(102 * Scale)) >>

ExampleQuery == Query(JsString(Mumbai), petrol, Fin(2023 * Scale), TRUE)

\* C4: for a valid query the series has 12 values; value m is 0 when no
\* record has the queried city, fuelType and year with month m, and the mean
\* of the prices of exactly those records, rounded to two decimals,
\* otherwise (records whose price is NaN, which no PricePoint has, are left
\* out of the mean).  Two Mumbai/petrol/2023 January records priced 100 and
\* 102 give 101 for January and 0 elsewhere.
C4_MonthlyMean ==
  (aggPc = "done" /\ query.valid /\ aggData.isArray) =>
    /\ ~averages.threw
    /\ DOMAIN Series = 1..12
    /\ \A m \in 1..12 :
         IF Matching(m) = {} THEN Series[m] = Fin(0)
         ELSE IsRoundedMean(Series[m], Matching(m))
    /\ (aggData.items = ExampleItems /\ query = ExampleQuery) =>
         /\ Series[1] = Fin(101 * Scale)
         /\ \A m \in 2..12 : Series[m] = Fin(0)

C4_Witness ==
  /\ aggPc = "done"
  /\ aggData.items = ExampleItems /\ query = ExampleQuery
  /\ Series[1] = Fin(101 * Scale)

KeyOf(d) == <<d.city, d.fuelType, d.year, d.month>>

KeysOf(data) == {KeyOf(data[i]) : i \in 1..Len(data)}

\* The combinations of the 4 cities, the 2 fuel types, the years 2017 to
\* 2025 and the months 1 to 12.
SampleKeys ==
  {<<"M", "u", "m", "b", "a", "i">>, <<"D", "e", "l", "h", "i">>, <<"C", "h", "e", "n", "n", "a", "i">>, <<"K", "o", "l", "k", "a", "t", "a">>}
    \X {<<"p", "e", "t", "r", "o", "l">>, <<"d", "i", "e", "s", "e", "l">>} \X (2017..2025) \X (1..12)

\* C14: every invocation of generateSampleData returns 864 records, one for
\* each combination of city, fuel type, year and month; whatever the random
\* variations, every record has a finite price >= 0 with two decimals, a
\* month in 1..12 and a year in 2017..2025; and the record count and the
\* key set are those of the first invocation.
C14_FallbackShape ==
  genLog # <<>> =>
    /\ Len(sample) = 864
    /\ Cardinality(SampleKeys) = 864
    /\ KeysOf(sample) = SampleKeys
    /\ \A i \in 1..Len(sample) :
         /\ sample[i].rsp.k = "fin"
         /\ sample[i].rsp.v >= 0 /\ sample[i].rsp.v % 100 = 0
         /\ sample[i].month \in 1..12
         /\ sample[i].year \in 2017..2025
    /\ Len(firstSample) = Len(sample)
    /\ KeysOf(firstSample) = KeysOf(sample)

\* Two invocations with different random variations, the later one with the
\* lowest price there is: diesel in Kolkata in January 2017 with the random
\* variation -5, which is 75 * 1.0 * 0.8 - 5 - 5 = 50.
C14_Witness ==
  /\ Len(genLog) = 2 /\ genLog[1] # genLog[2]
  /\ sample # firstSample
  /\ \E i \in 1..Len(sample) :
       /\ KeyOf(sample[i]) = <<<<"K", "o", "l", "k", "a", "t", "a">>, <<"d", "i", "e", "s", "e", "l">>, 2017, 1>>
       /\ sample[i].rsp = Fin(50 * Scale)

(***************************************************************************)
(* Loader properties                                                       *)
(***************************************************************************)

Body0 == Render(source)

\* One of the failures of the load has happened: fetch rejected, a status
\* that is not 2xx, a content type without text/csv, a body that cannot be
\* read, is empty or holds blanks only, or that parseCSVData rejects.
LoadFailed ==
  \/ net.fetch = "rejected"
  \/ ~net.ok
  \/ ~net.contentType.csv
  \/ net.text = "rejected"
  \/ \A i \in 1..Len(Body0) : Body0[i] \in WhiteSpace
  \/ ~parseCSVData(Body0, tz).ok
  \/ Len(parseCSVData(Body0, tz).data) = 0

CompleteResult ==
  IF LoadFailed THEN generateSampleData(rng) ELSE parseCSVData(Body0, tz).data

\* C15 as stated: in every execution the dataset is written exactly once.
\* An execution with nothing of the startup left to run has written it once.
C15_WrittenExactlyOnce ==
  (appPc \in {"running", "failed"} /\ loadDataPc # "awaiting")
    => dataWrites = 1

C15_Step ==
  /\ dataWrites' \in {dataWrites, dataWrites + 1}
  /\ dataWrites' <= 1
  /\ dataWrites' = dataWrites => appData' = appData
  /\ dataWrites' = dataWrites + 1 =>
       /\ loadPc = "settled" /\ loadDataPc = "awaiting"
       /\ appData' = CompleteResult
  /\ loadDataPc' = "done" => dataWrites' = 1

\* C15 amended: the dataset is written at most once, and exactly once when
\* the constructor has reached loadData and the load has settled; the write
\* stores the complete result of the load, and no other step (select
\* change with or without an aggregator call, resize, a step of the load)
\* changes the dataset, before or after the write.
C15_WrittenOnceWhenLoaded == [][C15_Step]_vars

\* The dataset was written with the 864 fallback records, and a select
\* change has since run the aggregator on it.
C15_Witness ==
  /\ dataWrites = 1 /\ loadDataPc = "done"
  /\ Len(appData) = 864 /\ appData = CompleteResult
  /\ lastUpdate.kind = "query" /\ lastUpdate.loaded

\* C17: every aggregator call updateChart makes for a change event happens
\* after loadData has assigned the loaded dataset.
C17_ServedAfterLoad ==
  lastUpdate.kind = "query" => lastUpdate.loaded

NoneAboveZero(series) ==
  \A i \in 1..12 : series[i].k = "nan" \/ series[i].v <= 0

\* C18: after an updateChart with city, fuel type and year all chosen whose
\* series has no value above 0 the statistics container has display none,
\* and it has display grid only after one whose series has such a value.
C18_StatsHiddenWithoutData ==
  /\ (lastUpdate.kind = "query" /\ NoneAboveZero(lastUpdate.series))
       => statsDisplay = "none"
  /\ statsDisplay = "grid"
       => (lastUpdate.kind = "query" /\ ~NoneAboveZero(lastUpdate.series))

\* C18 for the runs of updateChart on the loaded dataset.
C18_StatsHiddenWithoutDataLoaded ==
  lastUpdate.loaded => C18_StatsHiddenWithoutData

=============================================================================
